---- MODULE Spec2Model ----
(***************************************************************************)
(* A model of lib/settings.ts of resin-settings-client: the lazily         *)
(* resolved, memoized merge of the defaults, four YAML config files and    *)
(* the environment, and the two accessors get() and getAll().              *)
(*                                                                         *)
(* JavaScript objects are modelled as sequences of <<key, value>> entries  *)
(* with unique keys (own properties in insertion order).  A value is a     *)
(* record [kind, s, m]: a scalar string s, a nested object with entries m, *)
(* or undefined.  Keys, paths and messages are strings, handled character  *)
(* by character.                                                           *)
(***************************************************************************)
EXTENDS Integers, Sequences, FiniteSets, TLC

VARIABLES
    defaults,     \* the built-in defaults object (./defaults), fixed per process
    files,        \* the file system: path -> [status, text]
    processEnv,   \* process.env: an object of variable name -> string
    onceCalled,   \* _.once: the wrapped function has been invoked
    onceResult,   \* _.once: the stored result, [defined, obj]
    last,         \* the outcome of the most recent get()/getAll() call
    reads,        \* history: path -> number of fs.readFileSync calls on it
    envReads,     \* history: number of environment.parse(process.env) calls
    attempts,     \* history: number of runs of the merge (getSettings' body)
    fsRaised,     \* history: the error fs.readFileSync raised in the last merge
    unparsable,   \* history: the files that could not be parsed when the merge ran
    firstAll,     \* history: what the first getAll() after resolution returned
    changes,      \* number of external edits of the files or the environment
    touched       \* the files or the environment were edited after the last call

vars == <<defaults, files, processEnv, onceCalled, onceResult, last, reads,
          envReads, attempts, fsRaised, unparsable, firstAll, changes, touched>>

(***************************************************************************)
(* Bounds.                                                                 *)
(***************************************************************************)
MaxChanges == 1

(***************************************************************************)
(* Strings.                                                                *)
(***************************************************************************)
\* The first index at which sub occurs in s, 0 when it does not.
IndexOf(s, sub) ==
    LET hits == {i \in 1..(Len(s) - Len(sub) + 1) : SubSeq(s, i, i + Len(sub) - 1) = sub}
    IN  IF hits = {} THEN 0 ELSE CHOOSE i \in hits : \A j \in hits : i <= j

Contains(s, sub) == IndexOf(s, sub) # 0

StartsWith(s, prefix) ==
    Len(s) >= Len(prefix) /\ SubSeq(s, 1, Len(prefix)) = prefix

\* String.prototype.replace with a string pattern: the first occurrence only.
StringReplace(s, pattern, replacement) ==
    LET i == IndexOf(s, pattern)
    IN  IF i = 0 THEN s
        ELSE SubSeq(s, 1, i - 1) \o replacement \o SubSeq(s, i + Len(pattern), Len(s))

(***************************************************************************)
(* Values and objects.                                                     *)
(***************************************************************************)
Str(x) == [kind |-> "scalar", s |-> x, m |-> <<>>]
Obj(entries) == [kind |-> "object", s |-> "", m |-> entries]
Undefined == [kind |-> "undefined", s |-> "", m |-> <<>>]

Has(o, k) == \E i \in 1..Len(o) : o[i][1] = k
Lookup(o, k) ==
    IF Has(o, k) THEN o[CHOOSE i \in 1..Len(o) : o[i][1] = k][2] ELSE Undefined
\* o[k] = v: an existing key keeps its place, a new key is added last.
Put(o, k, v) ==
    IF Has(o, k)
    THEN [i \in 1..Len(o) |-> IF o[i][1] = k THEN <<k, v>> ELSE o[i]]
    ELSE Append(o, <<k, v>>)
KeysOf(o) == {o[i][1] : i \in 1..Len(o)}

(***************************************************************************)
(* lodash.                                                                 *)
(***************************************************************************)
\* _.mapKeys(object, iteratee), keys[i] being what the iteratee returns for
\* the i-th entry: the entries in order, each stored under its new key; a
\* later entry overwrites an earlier one that was given the same key.
mapKeys(object, keys) ==
    LET acc[i \in 0..Len(object)] ==
            IF i = 0 THEN <<>>
            ELSE Put(acc[i - 1], keys[i], object[i][2])
    IN  acc[Len(object)]

\* _.merge(object, source): own properties of source are assigned to object;
\* where both hold an object the two are merged recursively, and an
\* undefined source value never replaces an existing one.
RECURSIVE baseMerge(_, _)
baseMerge(object, source) ==
    LET acc[i \in 0..Len(source)] ==
            IF i = 0 THEN object
            ELSE LET k == source[i][1]
                     v == source[i][2]
                     rest == acc[i - 1]
                     d == Lookup(rest, k)
                 IN  CASE v.kind = "object" ->
                            Put(rest, k,
                                Obj(baseMerge(IF d.kind = "object" THEN d.m ELSE <<>>, v.m)))
                       [] v.kind = "undefined" ->
                            IF Has(rest, k) THEN rest ELSE Put(rest, k, v)
                       [] OTHER -> Put(rest, k, v)
    IN  acc[Len(source)]

(***************************************************************************)
(* Results of calls that may throw.                                        *)
(***************************************************************************)
NoError == [code |-> "", message |-> ""]
Error(message) == [code |-> "", message |-> message]
Return(v) == [threw |-> FALSE, value |-> v, error |-> NoError]
Throw(e) == [threw |-> TRUE, value |-> <<>>, error |-> e]

(***************************************************************************)
(* The collaborators: ./config, ./yaml, ./utils, ./environment and fs.     *)
(***************************************************************************)
\* config.paths
userLegacy == "$HOME/.resinrc.yml"
user == "$HOME/.balenarc.yml"
projectLegacy == "$PWD/resinrc.yml"
project == "$PWD/balenarc.yml"
Paths == {userLegacy, user, projectLegacy, project}

\* fs.readFileSync(file, {encoding: 'utf8'})
FsError(code, file) == [code |-> code, message |-> code \o ": open '" \o file \o "'"]
readFileSync(file) ==
    IF files[file].status = "ok" THEN Return(files[file].text)
    ELSE Throw(FsError(files[file].status, file))

\* yaml.parse(text): the document's mapping, or the parser's error.
yamlParse(text) ==
    IF text.valid THEN Return(text.doc) ELSE Throw(Error(text.problem))

\* utils.mergeObjects(...objects): the objects merged left to right into
\* the first, later ones taking precedence.
mergeObjects(objects) ==
    LET acc[i \in 1..Len(objects)] ==
            IF i = 1 THEN objects[1] ELSE baseMerge(acc[i - 1], objects[i])
    IN  acc[Len(objects)]

\* utils.evaluateSetting(settings, name): the stored value, followed through
\* one level of indirection when it is the name of another setting; an
\* unknown name gives undefined.
evaluateSetting(settings, name) ==
    LET value == Lookup(settings, name)
    IN  IF value.kind = "scalar" /\ Has(settings, value.s)
        THEN Lookup(settings, value.s)
        ELSE value

\* environment.parse(process.env): the variables named BALENARC_<NAME>, each
\* under the camel-cased <NAME>.
UpperCase == "ABCDEFGHIJKLMNOPQRSTUVWXYZ"
LowerCase == "abcdefghijklmnopqrstuvwxyz"
LowerOf == [i \in 1..Len(UpperCase) |-> SubSeq(LowerCase, i, i)]
UpperOf == [i \in 1..Len(LowerCase) |-> SubSeq(UpperCase, i, i)]
ToLower(c) ==
    LET i == IndexOf(UpperCase, c) IN IF i = 0 THEN c ELSE LowerOf[i]
ToUpper(c) ==
    LET i == IndexOf(LowerCase, c) IN IF i = 0 THEN c ELSE UpperOf[i]
RECURSIVE camelCaseFrom(_, _, _, _)
camelCaseFrom(s, i, started, boundary) ==
    IF i > Len(s) THEN ""
    ELSE LET c == SubSeq(s, i, i)
         IN  IF c = "_" THEN camelCaseFrom(s, i + 1, started, TRUE)
             ELSE (IF started /\ boundary THEN ToUpper(c) ELSE ToLower(c))
                  \o camelCaseFrom(s, i + 1, TRUE, FALSE)
camelCase(s) == camelCaseFrom(s, 1, FALSE, FALSE)

EnvPrefix == "BALENARC_"
getSettingName(variable) ==
    camelCase(SubSeq(variable, Len(EnvPrefix) + 1, Len(variable)))
environmentParse(environment) ==
    LET acc[i \in 0..Len(environment)] ==
            IF i = 0 THEN <<>>
            ELSE LET variable == environment[i][1]
                     name == getSettingName(variable)
                     rest == acc[i - 1]
                 IN  IF StartsWith(variable, EnvPrefix) /\ name # ""
                     THEN Put(rest, name, Str(environment[i][2]))
                     ELSE rest
    IN  acc[Len(environment)]

(***************************************************************************)
(* lib/settings.ts.                                                        *)
(***************************************************************************)
\* readConfigFile with a missing file's error thrown like any other.
readConfigFileRethrows(file) ==
    LET contents == readFileSync(file)
    IN  IF contents.threw THEN Throw(contents.error)
        ELSE LET parsed == yamlParse(contents.value)
             IN  IF parsed.threw
                 THEN Throw(Error("Error parsing config file " \o file \o ": "
                                  \o parsed.error.message))
                 ELSE Return(parsed.value)

\* readConfigFile with the parser's error thrown as it is.
readConfigFileNoPath(file) ==
    LET contents == readFileSync(file)
    IN  IF contents.threw
        THEN IF contents.error.code = "ENOENT" THEN Return(<<>>)
             ELSE Throw(contents.error)
        ELSE LET parsed == yamlParse(contents.value)
             IN  IF parsed.threw THEN Throw(parsed.error) ELSE Return(parsed.value)

\* readConfigFile with the read inside the try block that wraps errors.
readConfigFileWraps(file) ==
    LET contents == readFileSync(file)
    IN  IF contents.threw
        THEN IF contents.error.code = "ENOENT" THEN Return(<<>>)
             ELSE Throw(Error("Error parsing config file " \o file \o ": "
                              \o contents.error.message))
        ELSE LET parsed == yamlParse(contents.value)
             IN  IF parsed.threw
                 THEN Throw(Error("Error parsing config file " \o file \o ": "
                                  \o parsed.error.message))
                 ELSE Return(parsed.value)

readConfigFile(file) ==
    LET contents == readFileSync(file)
    IN  IF contents.threw
        THEN IF contents.error.code = "ENOENT" THEN Return(<<>>)
             ELSE Throw(contents.error)
        ELSE LET parsed == yamlParse(contents.value)
             IN  IF parsed.threw
                 THEN Throw(Error("Error parsing config file " \o file \o ": "
                                  \o parsed.error.message))
                 ELSE Return(parsed.value)

ReplaceResin(value, key) == StringReplace(key, "resin", "balena")
replaceResinKeys(parsedConfig) ==
    mapKeys(parsedConfig,
            [i \in 1..Len(parsedConfig) |->
                 ReplaceResin(parsedConfig[i][2], parsedConfig[i][1])])

\* The config files in the order getSettings' arguments read them.
SourceFiles == <<userLegacy, user, projectLegacy, project>>

\* Sources with the user files merged after the project files.
SourcesProjectFirst ==
    << defaults,
       replaceResinKeys(readConfigFile(projectLegacy).value),
       readConfigFile(project).value,
       replaceResinKeys(readConfigFile(userLegacy).value),
       readConfigFile(user).value,
       environmentParse(processEnv) >>

\* Sources with every config file's keys rewritten.
SourcesAllNormalized ==
    << defaults,
       replaceResinKeys(readConfigFile(userLegacy).value),
       replaceResinKeys(readConfigFile(user).value),
       replaceResinKeys(readConfigFile(projectLegacy).value),
       replaceResinKeys(readConfigFile(project).value),
       environmentParse(processEnv) >>

\* The six objects merged over {}, lowest precedence first.
Sources ==
    << defaults,
       replaceResinKeys(readConfigFile(userLegacy).value),
       readConfigFile(user).value,
       replaceResinKeys(readConfigFile(projectLegacy).value),
       readConfigFile(project).value,
       environmentParse(processEnv) >>

\* The position in SourceFiles of the first file whose read throws, 0 if none.
FirstFailure ==
    LET bad == {i \in 1..Len(SourceFiles) : readConfigFile(SourceFiles[i]).threw}
    IN  IF bad = {} THEN 0 ELSE CHOOSE i \in bad : \A j \in bad : i <= j

\* The function given to _.once: the arguments are evaluated left to right,
\* and the first read that throws ends the call.
mergeSettings ==
    LET failure == FirstFailure
    IN  IF failure # 0
        THEN Throw(readConfigFile(SourceFiles[failure]).error)
        ELSE Return(mergeObjects(<< <<>> >> \o Sources))

\* The files the function reads before it returns or throws.
FilesRead ==
    LET failure == FirstFailure
    IN  {SourceFiles[i] : i \in 1..(IF failure = 0 THEN Len(SourceFiles) ELSE failure)}

\* A wrapper that remembers nothing.
OnceAlwaysInvokes == TRUE

\* _.once(func): func runs on the first call only.  lodash counts the calls
\* down before it invokes func, and stores the result after func returns: a
\* first call that throws leaves the result undefined and is not repeated.
OnceInvokes == ~onceCalled

\* getSettings(): [ran, threw, error, result], result being what _.once holds
\* once the call is over.
getSettings ==
    IF OnceInvokes
    THEN LET merged == mergeSettings
         IN  [ran |-> TRUE, threw |-> merged.threw, error |-> merged.error,
              result |-> IF merged.threw THEN onceResult
                         ELSE [defined |-> TRUE, obj |-> merged.value]]
    ELSE [ran |-> FALSE, threw |-> FALSE, error |-> NoError, result |-> onceResult]

\* get(name) once getSettings() has returned an object.
get(settings, name) == evaluateSetting(settings, name)

\* getAll returning the stored settings as they are.
getAllRaw(result) ==
    IF result.defined THEN result.obj ELSE <<>>

\* getAll() once getSettings() has returned: _.mapValues over the settings,
\* each value being get(name); _.mapValues of undefined is {}.
getAll(result) ==
    IF result.defined
    THEN [i \in 1..Len(result.obj) |->
              <<result.obj[i][1], get(result.obj, result.obj[i][1])>>]
    ELSE <<>>

(***************************************************************************)
(* The state.                                                              *)
(***************************************************************************)
Yaml(doc) == [valid |-> TRUE, doc |-> doc, problem |-> ""]
BadYaml == [valid |-> FALSE, doc |-> <<>>, problem |-> "bad indentation of a mapping entry"]
Missing == [status |-> "ENOENT", text |-> Yaml(<<>>)]
Denied == [status |-> "EACCES", text |-> Yaml(<<>>)]
File(text) == [status |-> "ok", text |-> text]

NoCall == [op |-> "none", name |-> "", ran |-> FALSE, outcome |-> "none",
           value |-> Undefined, error |-> NoError]
Returned(op, name, ran, value) ==
    [op |-> op, name |-> name, ran |-> ran, outcome |-> "returned",
     value |-> value, error |-> NoError]
Threw(op, name, ran, error) ==
    [op |-> op, name |-> name, ran |-> ran, outcome |-> "threw",
     value |-> Undefined, error |-> error]

\* What a call of getSettings() leaves behind.
GetSettingsEffect(g) ==
    /\ onceCalled' = TRUE
    /\ onceResult' = g.result
    /\ IF g.ran
       THEN LET failure == FirstFailure
                read == FilesRead
            IN  /\ reads' = [p \in Paths |-> IF p \in read THEN reads[p] + 1 ELSE reads[p]]
                /\ envReads' = IF failure = 0 THEN envReads + 1 ELSE envReads
                /\ fsRaised' = IF failure # 0 /\ readFileSync(SourceFiles[failure]).threw
                               THEN readFileSync(SourceFiles[failure]).error
                               ELSE NoError
       ELSE UNCHANGED <<reads, envReads, fsRaised>>
    /\ attempts' = IF g.ran THEN attempts + 1 ELSE attempts
    /\ unparsable' = IF ~g.ran THEN unparsable
                     ELSE {p \in Paths : files[p].status = "ok" /\ ~files[p].text.valid}
    /\ touched' = FALSE
    /\ UNCHANGED <<defaults, files, processEnv, changes>>

\* export const get = (name) => utils.evaluateSetting(getSettings(), name)
Get(name) ==
    LET g == getSettings
    IN  /\ GetSettingsEffect(g)
        /\ UNCHANGED firstAll
        /\ IF g.threw THEN last' = Threw("get", name, g.ran, g.error)
           ELSE IF g.result.defined
                THEN last' = Returned("get", name, g.ran, get(g.result.obj, name))
                ELSE \* the lookup in undefined settings: absent, or a TypeError
                     \/ last' = Returned("get", name, g.ran, Undefined)
                     \/ last' = Threw("get", name, g.ran,
                                      Error("Cannot read properties of undefined"))

\* export const getAll = () => _.mapValues(getSettings(), (_s, name) => get(name))
GetAll ==
    LET g == getSettings
    IN  /\ GetSettingsEffect(g)
        /\ IF g.threw
           THEN /\ last' = Threw("getAll", "", g.ran, g.error)
                /\ UNCHANGED firstAll
           ELSE LET all == Obj(getAll(g.result))
                IN  /\ last' = Returned("getAll", "", g.ran, all)
                    /\ firstAll' = IF g.result.defined /\ ~firstAll.set
                                   THEN [set |-> TRUE, value |-> all]
                                   ELSE firstAll

\* Someone outside the process rewrites, removes or protects a config file.
ChangeFile(p, f) ==
    /\ changes < MaxChanges
    /\ f # files[p]
    /\ files' = [files EXCEPT ![p] = f]
    /\ changes' = changes + 1
    /\ touched' = TRUE
    /\ UNCHANGED <<defaults, processEnv, onceCalled, onceResult, last, reads,
                   envReads, attempts, fsRaised, unparsable, firstAll>>

\* process.env is assigned to.
ChangeEnv(e) ==
    /\ changes < MaxChanges
    /\ e # processEnv
    /\ processEnv' = e
    /\ changes' = changes + 1
    /\ touched' = TRUE
    /\ UNCHANGED <<defaults, files, onceCalled, onceResult, last, reads,
                   envReads, attempts, fsRaised, unparsable, firstAll>>

\* The setting names asked for.
Names == {"dataDirectory", "balenaDataDirectory", "resinDataDirectory", "apiUrl"}

\* A short name of each file, which keeps the values of the sources apart.
Tag(p) ==
    CASE p = userLegacy -> "user-legacy"
      [] p = user -> "user"
      [] p = projectLegacy -> "project-legacy"
      [] p = project -> "project"

DefaultSettings ==
    << <<"dataDirectory", Str("/opt/default")>>, <<"balenaUrl", Str("balena-cloud.com")>>,
       <<"apiUrl", Str("balenaUrl")>> >>

FileStates(p) ==
    {Missing, Denied, File(BadYaml),
     File(Yaml(<< <<"dataDirectory", Str("/opt/" \o Tag(p))>> >>))}

Environments ==
    { << <<"FOO_BAR", "baz">> >>,
      << <<"BALENARC_DATA_DIRECTORY", "/opt/cache/balena">> >> }

Fresh ==
    /\ onceCalled = FALSE
    /\ onceResult = [defined |-> FALSE, obj |-> <<>>]
    /\ last = NoCall
    /\ reads = [p \in Paths |-> 0]
    /\ envReads = 0
    /\ attempts = 0
    /\ fsRaised = NoError
    /\ unparsable = {}
    /\ firstAll = [set |-> FALSE, value |-> Undefined]
    /\ changes = 0
    /\ touched = FALSE

Init ==
    /\ defaults = DefaultSettings
    /\ files \in [Paths -> UNION {FileStates(p) : p \in Paths}]
    /\ \A p \in Paths : files[p] \in FileStates(p)
    /\ processEnv \in Environments
    /\ Fresh

Next ==
    \/ \E name \in Names : Get(name)
    \/ GetAll
    \/ \E p \in Paths : \E f \in FileStates(p) : ChangeFile(p, f)
    \/ \E e \in Environments : ChangeEnv(e)

Spec == Init /\ [][Next]_vars

(***************************************************************************)
(* A second specification, for the merge itself: every file is missing or  *)
(* holds a mapping, the defaults, the mappings and the environment are     *)
(* drawn from wider sets, and nothing is edited while the process runs.    *)
(***************************************************************************)
Nested(tag) == Obj(<< <<tag, Str(tag)>> >>)

DefaultsChoices ==
    { DefaultSettings,
      << <<"resinDataDirectory", Str("/opt/default-resin")>>,
         <<"balenaUrl", Str("balena-cloud.com")>> >>,
      << <<"dataDirectory", Nested("default")>> >> }

MergeStates(p) ==
    {Missing,
     File(Yaml(<< <<"dataDirectory", Str("/opt/" \o Tag(p))>>,
                  <<"resinDataDirectory", Str("/data/" \o Tag(p))>> >>))}
    \cup
    (IF p \in {userLegacy, projectLegacy}
     THEN {File(Yaml(<< <<"dataDirectory", Nested(Tag(p))>>,
                        <<"resinUrlresin", Str(Tag(p))>> >>)),
           File(Yaml(<< <<"resinDataDirectory", Str("/data/" \o Tag(p))>>,
                        <<"balenaDataDirectory", Str("/balena/" \o Tag(p))>> >>))}
     ELSE {File(Yaml(<< <<"dataDirectory", Nested(Tag(p))>>,
                        <<"balenaDataDirectory", Str("/balena/" \o Tag(p))>> >>)),
           File(Yaml(<< <<"dataDirectory", Str("apiUrl")>> >>))})

MergeEnvironments ==
    Environments \cup { << <<"BALENARC_RESIN_DATA_DIRECTORY", "/data/env">> >> }

InitMerge ==
    /\ defaults \in DefaultsChoices
    /\ files \in [Paths -> UNION {MergeStates(p) : p \in Paths}]
    /\ \A p \in Paths : files[p] \in MergeStates(p)
    /\ processEnv \in MergeEnvironments
    /\ Fresh

NextMerge ==
    \/ \E name \in Names : Get(name)
    \/ GetAll

SpecMerge == InitMerge /\ [][NextMerge]_vars

(***************************************************************************)
(* What the properties below speak of.                                     *)
(***************************************************************************)
\* The mapping a config file holds: empty when it is missing or unusable.
Parsed(p) ==
    IF files[p].status = "ok" /\ files[p].text.valid THEN files[p].text.doc ELSE <<>>

\* The six sources as the documentation ranks them: defaults, legacy user
\* file, user file, legacy project file, project file, environment.
ByPrecedence ==
    << defaults, replaceResinKeys(Parsed(userLegacy)), Parsed(user),
       replaceResinKeys(Parsed(projectLegacy)), Parsed(project),
       environmentParse(processEnv) >>

Defining(ranked, k) == {i \in 1..Len(ranked) : Has(ranked[i], k)}
Highest(ranked, k) ==
    CHOOSE i \in Defining(ranked, k) : \A j \in Defining(ranked, k) : j <= i
DistinctValues(ranked, k) ==
    \A i, j \in Defining(ranked, k) :
        i # j => Lookup(ranked[i], k) # Lookup(ranked[j], k)

\* result holds all of v: v itself when v is a scalar, and every entry of v,
\* at any depth, when v is an object.
RECURSIVE Covers(_, _)
Covers(result, v) ==
    IF v.kind = "object"
    THEN /\ result.kind = "object"
         /\ \A i \in 1..Len(v.m) : Covers(Lookup(result.m, v.m[i][1]), v.m[i][2])
    ELSE result = v

\* Every occurrence of resin in s replaced by balena.
RECURSIVE ReplaceEvery(_)
ReplaceEvery(s) ==
    LET i == IndexOf(s, "resin")
    IN  IF i = 0 THEN s
        ELSE SubSeq(s, 1, i - 1) \o "balena" \o ReplaceEvery(SubSeq(s, i + 5, Len(s)))

Resolved == onceResult.defined
\* The last call was a get() that returned, and nothing was edited since.
GotValue == last.op = "get" /\ last.outcome = "returned" /\ Resolved /\ ~touched

(***************************************************************************)
(* C1 as stated: get(K) returns the value of the highest-precedence source *)
(* among those that define K with distinct values, precedence rising from  *)
(* defaults through legacy user, user, legacy project and project file to  *)
(* the environment.                                                        *)
(***************************************************************************)
C1_HighestSourceValueReturned ==
    GotValue =>
        LET ranked == ByPrecedence
        IN  (Defining(ranked, last.name) # {} /\ DistinctValues(ranked, last.name))
            => last.value = Lookup(ranked[Highest(ranked, last.name)], last.name)

(***************************************************************************)
(* C1 amended: with K defined by some of the six sources with distinct     *)
(* values and v the value of the highest-precedence one, get(K) returns v  *)
(* when v is a scalar that names no setting; when v is a scalar naming a   *)
(* setting, get(K) returns that setting's stored value; when v is a nested *)
(* mapping, get(K) returns a nested mapping that holds every entry of v    *)
(* (merged key by key with the lower-precedence nested mappings).          *)
(***************************************************************************)
C1_HighestSourceValueMerged ==
    GotValue =>
        LET ranked == ByPrecedence
        IN  (Defining(ranked, last.name) # {} /\ DistinctValues(ranked, last.name))
            => LET v == Lookup(ranked[Highest(ranked, last.name)], last.name)
               IN  CASE v.kind = "object" -> Covers(last.value, v)
                     [] v.kind = "scalar" /\ Has(onceResult.obj, v.s) ->
                            last.value = Lookup(onceResult.obj, v.s)
                     [] OTHER -> last.value = v

\* get("dataDirectory") answered from the environment with all six sources
\* defining it.
C1_Witness ==
    /\ GotValue /\ last.name = "dataDirectory"
    /\ Cardinality(Defining(ByPrecedence, "dataDirectory")) = 6
    /\ DistinctValues(ByPrecedence, "dataDirectory")
    /\ last.value = Str("/opt/cache/balena")

(***************************************************************************)
(* C3: only the two legacy files have their keys rewritten.  After         *)
(* resolution the settings hold resinDataDirectory exactly when the        *)
(* defaults, a current file or the environment mapping hold that literal   *)
(* key, and balenaDataDirectory exactly when one of those holds it or a    *)
(* legacy file holds either key; a legacy file's resinDataDirectory value  *)
(* is stored under balenaDataDirectory, and a current file's under         *)
(* resinDataDirectory, unless a higher-precedence source overrides it.     *)
(***************************************************************************)
LegacyKey == "resinDataDirectory"
CurrentKey == "balenaDataDirectory"
\* The six sources as they are found, in the order of their ranks.  Rank i
\* gives key k to the merge: a legacy file (ranks 2 and 4) gives the current
\* key for either spelling and never the legacy key.
Unnormalized ==
    <<defaults, Parsed(userLegacy), Parsed(user), Parsed(projectLegacy),
      Parsed(project), environmentParse(processEnv)>>
Gives(raw, i, k) ==
    IF i \in {2, 4}
    THEN k = CurrentKey /\ (Has(raw[i], LegacyKey) \/ Has(raw[i], CurrentKey))
    ELSE Has(raw[i], k)
C3_OnlyLegacyFilesNormalized ==
    (Resolved /\ ~touched) =>
        LET raw == Unnormalized
        IN  /\ \A k \in {LegacyKey, CurrentKey} :
                   Has(onceResult.obj, k) <=> \E i \in 1..6 : Gives(raw, i, k)
            /\ \A i \in {2, 4} :
                   (/\ Has(raw[i], LegacyKey) /\ ~Has(raw[i], CurrentKey)
                    /\ \A j \in (i + 1)..6 : ~Gives(raw, j, CurrentKey))
                   => Lookup(onceResult.obj, CurrentKey) = Lookup(raw[i], LegacyKey)
            /\ \A i \in {3, 5} :
                   (/\ Has(raw[i], LegacyKey)
                    /\ \A j \in (i + 1)..6 : ~Gives(raw, j, LegacyKey))
                   => Lookup(onceResult.obj, LegacyKey) = Lookup(raw[i], LegacyKey)

\* Both user files hold resinDataDirectory: the legacy one's value is stored
\* as balenaDataDirectory, the current one's as resinDataDirectory.
C3_Witness ==
    /\ Resolved /\ ~touched
    /\ Has(Parsed(userLegacy), LegacyKey) /\ ~Has(Parsed(userLegacy), CurrentKey)
    /\ Has(Parsed(user), LegacyKey)
    /\ Lookup(onceResult.obj, CurrentKey) = Str("/data/user-legacy")
    /\ Lookup(onceResult.obj, LegacyKey) = Str("/data/user")

(***************************************************************************)
(* C8: after successful resolution getAll() returns a mapping with exactly *)
(* the keys of the resolved configuration, each with the value get() gives *)
(* for it, and no call changes the resolved configuration.                 *)
(***************************************************************************)
C8_GetAllAgreesWithGet ==
    /\ []((last.op = "getAll" /\ last.outcome = "returned" /\ Resolved) =>
            /\ last.value.kind = "object"
            /\ KeysOf(last.value.m) = KeysOf(onceResult.obj)
            /\ \A k \in KeysOf(onceResult.obj) :
                   Lookup(last.value.m, k) = get(onceResult.obj, k))
    /\ [][Resolved => onceResult' = onceResult]_vars

\* getAll() returned a mapping in which apiUrl is given through its alias.
C8_Witness ==
    /\ last.op = "getAll" /\ last.outcome = "returned" /\ Resolved
    /\ Lookup(onceResult.obj, "apiUrl") = Str("balenaUrl")
    /\ Lookup(last.value.m, "apiUrl") = Str("balena-cloud.com")
    /\ Len(last.value.m) >= 4

(***************************************************************************)
(* C10 as stated: in the mapping made from a legacy file no key contains   *)
(* resin any more, and every key of the file, with every resin in it       *)
(* replaced by balena, holds the value the file gave it (keys that are     *)
(* rewritten to the same name aside).                                      *)
(***************************************************************************)
C10_NoResinKeyLeft ==
    (Resolved /\ ~touched) =>
        \A p \in {userLegacy, projectLegacy} :
            LET doc == Parsed(p)
                normalized == replaceResinKeys(readConfigFile(p).value)
            IN  /\ \A k \in KeysOf(normalized) : ~Contains(k, "resin")
                /\ \A i \in 1..Len(doc) :
                       (\A j \in 1..Len(doc) :
                            j # i => ReplaceEvery(doc[j][1]) # ReplaceEvery(doc[i][1]))
                       => Lookup(normalized, ReplaceEvery(doc[i][1])) = doc[i][2]

(***************************************************************************)
(* C2: no source is read before the first call, no config file and no      *)
(* environment is read more than once, and once a getAll() has returned    *)
(* the resolved configuration every later getAll() returns the same        *)
(* mapping and every later get() the value that mapping holds, whatever    *)
(* was edited in between.                                                  *)
(***************************************************************************)
C2_ResolvedOnce ==
    /\ \A p \in Paths : reads[p] <= 1
    /\ envReads <= 1
    /\ last.op = "none" =>
           (~Resolved /\ envReads = 0 /\ \A p \in Paths : reads[p] = 0)
    /\ (firstAll.set /\ last.op = "getAll") =>
           (last.outcome = "returned" /\ last.value = firstAll.value)
    /\ (firstAll.set /\ last.op = "get") =>
           (last.outcome = "returned" /\ last.value = Lookup(firstAll.value.m, last.name))

\* A getAll() answered from the cache, the same as the first, after an edit
\* that would have made a fresh merge fail or give something else.
C2_Witness ==
    /\ firstAll.set /\ last.op = "getAll" /\ ~last.ran /\ ~touched /\ changes > 0
    /\ last.value = firstAll.value
    /\ (mergeSettings.threw \/ mergeSettings.value # onceResult.obj)

(***************************************************************************)
(* C4: a missing config file counts as an empty mapping and is never an    *)
(* error.  When every file is missing or holds a mapping, the call that    *)
(* resolves returns, and the settings are the merge of the sources with    *)
(* nothing for the missing files; no resolving call fails with a missing   *)
(* file's error; with all four missing getAll() returns the defaults       *)
(* overridden by the environment mapping.                                  *)
(***************************************************************************)
Usable(p) == files[p].status = "ENOENT" \/ (files[p].status = "ok" /\ files[p].text.valid)
NamesFile(error, p) ==
    Contains(error.message, p) /\ Contains(error.message, BadYaml.problem)
C5_EveryUnparsableFileNamed ==
    (last.ran /\ unparsable # {}) =>
        /\ last.outcome = "threw"
        /\ \A p \in unparsable : NamesFile(last.error, p)

(***************************************************************************)
(* C5 amended: when a config file exists and cannot be parsed, the call    *)
(* that resolves fails and returns no value; the error's message holds the *)
(* file's path and the parser's message if every file read before it       *)
(* (legacy user, user, legacy project, project, in this order) is missing  *)
(* or holds a mapping.                                                     *)
(***************************************************************************)
Position(p) == CHOOSE i \in 1..Len(SourceFiles) : SourceFiles[i] = p
C5_FirstUnparsableFileNamed ==
    (last.ran /\ unparsable # {}) =>
        /\ last.outcome = "threw"
        /\ ~touched =>
               \A p \in unparsable :
                   (\A i \in 1..(Position(p) - 1) : Usable(SourceFiles[i]))
                   => NamesFile(last.error, p)

\* Two files cannot be parsed; the error names the one read first.
C5_Witness ==
    /\ last.ran /\ ~touched /\ last.outcome = "threw"
    /\ unparsable = {user, project} /\ Usable(userLegacy)
    /\ last.error.message
           = "Error parsing config file $HOME/.balenarc.yml: bad indentation of a mapping entry"

(***************************************************************************)
(* C6: when reading a config file fails for another reason than the file   *)
(* being missing, the call that resolves fails with that very error.       *)
(***************************************************************************)
C6_ReadErrorPropagated ==
    (last.ran /\ fsRaised.code \notin {"", "ENOENT"}) =>
        (last.outcome = "threw" /\ last.error = fsRaised)

\* getAll() failed with the permission error of the legacy project file.
C6_Witness ==
    /\ last.ran /\ last.op = "getAll" /\ last.outcome = "threw"
    /\ fsRaised.code = "EACCES"
    /\ last.error = [code |-> "EACCES", message |-> "EACCES: open '$PWD/resinrc.yml'"]

(***************************************************************************)
(* C7 as stated: while resolution has failed and the cache is empty, every *)
(* call runs the read-and-merge sequence again, and fails again if nothing *)
(* was edited.                                                             *)
(***************************************************************************)
C7_FailedResolutionRetried ==
    (attempts >= 1 /\ ~Resolved /\ last.op # "none") =>
        (last.ran /\ (~touched => last.outcome = "threw"))

(***************************************************************************)
(* C9 as stated, for getAll(): once resolution has failed and no source    *)
(* has been edited, getAll() does not return a mapping.                    *)
(***************************************************************************)
C9_NoMappingAfterFailure ==
    (attempts >= 1 /\ ~Resolved /\ changes = 0 /\ last.op = "getAll") =>
        last.outcome = "threw"

====
